---------------------------- MODULE Spec2Model ----------------------------
(***************************************************************************)
(* A model of src/src/convert_manuals.py: the post-processing pipeline     *)
(* that reshapes pandoc's GFM output (table rows, summary tables, indented *)
(* code blocks, blank lines, escaped characters) and the batch driver.     *)
(*                                                                         *)
(* A Python str is a TLA+ string; a list[str] is a sequence of strings.    *)
(* Characters are read with SubSeq(s, i, i).  Lines come from              *)
(* str.splitlines() and so hold no line terminator.                        *)
(***************************************************************************)
EXTENDS Integers, Sequences, FiniteSets, TLC

VARIABLES
    pc,        \* the position of the run: "input", then the operation applied
    row,       \* the argument of split_table_row
    cells,     \* the list split_table_row returned
    doc,       \* the argument of a line-list function (a Document)
    out,       \* the list the function returned
    text,      \* the text assembled by convert_file's last stage
    text2,     \* the text assembled from text by the same stage again
    htmlFiles, \* the file system: the HTML files that exist
    docbook,   \* the file system: whether commandref's docbook.html exists
    targets,   \* main: the list of input files it gathered
    idx,       \* main: how many targets convert_file has returned for
    fsDirs,    \* the file system: the output directories that exist
    fsFiles,   \* the file system: output path -> content, or NoFile
    before,    \* the output directories and files when convert_file was last entered
    written,   \* what this run's write_text calls wrote: output path -> content
    calls,     \* how many times the converter was run, per input file
    raised     \* the input file whose convert_file raised, or NoTarget

vars == <<pc, row, cells, doc, out, text, text2, htmlFiles, docbook,
          targets, idx, fsDirs, fsFiles, before, written, calls, raised>>

pipelineVars == <<row, cells, doc, out, text, text2>>

mainVars == <<htmlFiles, docbook, targets, idx, fsDirs, fsFiles, before,
              written, calls, raised>>

(***************************************************************************)
(* Bounds of the model.                                                    *)
(***************************************************************************)
MaxRowLen == 5
MaxTableDocLen == 3
MaxIndentDocLen == 5
MaxCollapseDocLen == 5

(***************************************************************************)
(* Characters and the str methods the code uses.                           *)
(***************************************************************************)
\* U+00A0, the non-breaking space, is written "~" in this model.
NBSP == "~"

Char(s, i) == SubSeq(s, i, i)

\* str.isspace() of one character: what str.strip() removes.
IsSpace(c) == c \in {" ", "\t", "\n", "\r", NBSP}

startswith(s, prefix) ==
    /\ Len(s) >= Len(prefix)
    /\ SubSeq(s, 1, Len(prefix)) = prefix

\* the test sub in s
Contains(s, sub) ==
    \E i \in 1..(Len(s) - Len(sub) + 1) : SubSeq(s, i, i + Len(sub) - 1) = sub

RECURSIVE lstrip(_)
lstrip(s) ==
    IF s # "" /\ IsSpace(Char(s, 1)) THEN lstrip(SubSeq(s, 2, Len(s))) ELSE s

RECURSIVE rstrip(_)
rstrip(s) ==
    IF s # "" /\ IsSpace(Char(s, Len(s))) THEN rstrip(SubSeq(s, 1, Len(s) - 1)) ELSE s

strip(s) == lstrip(rstrip(s))

\* line.rstrip('\n')
RECURSIVE rstrip_newline(_)
rstrip_newline(s) ==
    IF s # "" /\ Char(s, Len(s)) = "\n"
    THEN rstrip_newline(SubSeq(s, 1, Len(s) - 1))
    ELSE s

\* s.replace(old, new): every occurrence, left to right, without overlap.
RECURSIVE replace(_, _, _)
replace(s, old, new) ==
    IF s = "" THEN ""
    ELSE IF startswith(s, old)
         THEN new \o replace(SubSeq(s, Len(old) + 1, Len(s)), old, new)
         ELSE Char(s, 1) \o replace(SubSeq(s, 2, Len(s)), old, new)

(***************************************************************************)
(* split_table_row                                                         *)
(***************************************************************************)
\* A mutant: the cell is closed without trimming it.
CloseCellUntrimmed(cell_chars) == cell_chars

\* ''.join(cell_chars).strip()
CloseCell(cell_chars) == strip(cell_chars)

\* The for loop over the characters, from index i on.
RECURSIVE SplitLoop(_, _, _, _, _, _)
SplitLoop(line, i, cs, cell_chars, escape, started) ==
    IF i > Len(line)
    THEN IF cell_chars # "" THEN Append(cs, CloseCell(cell_chars)) ELSE cs
    ELSE LET ch == Char(line, i) IN
         IF ~started
         THEN SplitLoop(line, i + 1, cs, cell_chars, escape, ch = "|")
         ELSE IF ch = "|" /\ ~escape
         THEN SplitLoop(line, i + 1, Append(cs, CloseCell(cell_chars)), "", escape, started)
         ELSE IF ch = "\\" /\ ~escape
         THEN SplitLoop(line, i + 1, cs, cell_chars \o ch, TRUE, started)
         ELSE SplitLoop(line, i + 1, cs, cell_chars \o ch, FALSE, started)

split_table_row(line) ==
    SplitLoop(rstrip_newline(line), 1, <<>>, "", FALSE, FALSE)

(***************************************************************************)
(* SUMMARY_ROW_RE, matched at the start of a cell: two asterisks, a lazy    *)
(* group 1 of at least one character, a colon and two asterisks, optional  *)
(* white space, and group 2 to the end.  The lazy group 1 ends at the      *)
(* first colon-asterisk-asterisk that leaves it at least one character.  A *)
(* cell holds no line terminator, so the dot matches every character.      *)
(***************************************************************************)
LabelEnds(s) == {p \in 4..(Len(s) - 2) : SubSeq(s, p, p + 2) = ":**"}

LabelEnd(s) == CHOOSE p \in LabelEnds(s) : \A q \in LabelEnds(s) : p <= q

\* SUMMARY_ROW_RE.match(s) is not None
SummaryRowMatches(s) == startswith(s, "**") /\ LabelEnds(s) # {}

\* match.group(1)
MatchGroup1(s) == SubSeq(s, 3, LabelEnd(s) - 1)

\* match.group(2)
MatchGroup2(s) == lstrip(SubSeq(s, LabelEnd(s) + 3, Len(s)))

(***************************************************************************)
(* is_summary_table                                                        *)
(***************************************************************************)
\* A mutant: a row counts when any of its cells matches.
AnyCellMatches(line) ==
    /\ strip(line) # ""
    /\ Contains(line, "**")
    /\ \E k \in 1..Len(split_table_row(line)) :
           SummaryRowMatches(split_table_row(line)[k])

\* One turn of the loop: the row makes the function return True.
FirstCellMatches(line) ==
    /\ strip(line) # ""
    /\ Contains(line, "**")
    /\ split_table_row(line) # <<>>
    /\ SummaryRowMatches(split_table_row(line)[1])

is_summary_table(table_lines) ==
    \E k \in 1..Len(table_lines) : FirstCellMatches(table_lines[k])

(***************************************************************************)
(* format_summary_table                                                    *)
(***************************************************************************)
\* set(stripped.replace('-', '')) <= {'|'}
OnlyHyphensAndPipes(stripped) ==
    \A i \in 1..Len(stripped) : Char(stripped, i) \in {"-", "|"}

\* A mutant: the cells after the first are left out of the details.
DetailsOfFirstCellOnly(details, cs, k) == details

\* for extra in cells[1:], from the k-th cell on.
RECURSIVE JoinExtras(_, _, _)
JoinExtras(details, cs, k) ==
    IF k > Len(cs) THEN details
    ELSE IF cs[k] # ""
         THEN JoinExtras(IF details # "" THEN details \o " " \o strip(cs[k])
                                         ELSE strip(cs[k]),
                         cs, k + 1)
         ELSE JoinExtras(details, cs, k + 1)

\* A mutant: a row whose first cell does not match is passed through.
FormatRowKeepingOthers(line) ==
    LET stripped == strip(line)
        cs == split_table_row(line)
    IN IF stripped = "" \/ OnlyHyphensAndPipes(stripped) THEN <<>>
       ELSE IF cs = <<>> THEN <<>>
       ELSE IF cs[1] = "" THEN <<>>
       ELSE IF ~SummaryRowMatches(cs[1]) THEN <<line>>
       ELSE <<"| " \o strip(MatchGroup1(cs[1])) \o " | "
                   \o JoinExtras(strip(MatchGroup2(cs[1])), cs, 2) \o " |">>

\* One turn of the loop: the lines the row adds to formatted.
FormatRow(line) ==
    LET stripped == strip(line)
        cs == split_table_row(line)
    IN IF stripped = "" \/ OnlyHyphensAndPipes(stripped) THEN <<>>
       ELSE IF cs = <<>> THEN <<>>
       ELSE IF cs[1] = "" THEN <<>>
       ELSE IF ~SummaryRowMatches(cs[1]) THEN <<>>
       ELSE <<"| " \o strip(MatchGroup1(cs[1])) \o " | "
                   \o JoinExtras(strip(MatchGroup2(cs[1])), cs, 2) \o " |">>

RECURSIVE FormatLoop(_, _, _)
FormatLoop(table_lines, i, formatted) ==
    IF i > Len(table_lines) THEN formatted
    ELSE FormatLoop(table_lines, i + 1, formatted \o FormatRow(table_lines[i]))

format_summary_table(table_lines) ==
    FormatLoop(table_lines, 1, <<"| Field | Details |", "| --- | --- |">>)

(***************************************************************************)
(* rewrite_summary_tables                                                  *)
(***************************************************************************)
\* The inner while: the first index from j on of a line not starting with '|'.
RECURSIVE TableEnd(_, _)
TableEnd(lines, j) ==
    IF j <= Len(lines) /\ startswith(lines[j], "|") THEN TableEnd(lines, j + 1) ELSE j

RECURSIVE RewriteLoop(_, _, _)
RewriteLoop(lines, i, result) ==
    IF i > Len(lines) THEN result
    ELSE IF startswith(lines[i], "|")
    THEN LET j == TableEnd(lines, i)
             table_block == SubSeq(lines, i, j - 1)
         IN RewriteLoop(lines, j,
                        result \o (IF is_summary_table(table_block)
                                   THEN format_summary_table(table_block)
                                   ELSE table_block))
    ELSE RewriteLoop(lines, i + 1, Append(result, lines[i]))

rewrite_summary_tables(lines) == RewriteLoop(lines, 1, <<>>)

(***************************************************************************)
(* convert_indented_code_blocks                                            *)
(***************************************************************************)
Indent == "    "
\* The fence line, three backticks, is written "^^^" in this model.
Fence == "^^^"

\* The inner while from index j on: the collected block (each indented line
\* without its four spaces, each empty line as the empty string), saw_blank, and the index
\* of the first line that is neither.
RECURSIVE CollectBlock(_, _, _, _)
CollectBlock(lines, j, block, saw_blank) ==
    IF j <= Len(lines) /\ startswith(lines[j], Indent)
    THEN CollectBlock(lines, j + 1,
                      Append(block, SubSeq(lines[j], 5, Len(lines[j]))), saw_blank)
    ELSE IF j <= Len(lines) /\ lines[j] = ""
    THEN CollectBlock(lines, j + 1, Append(block, ""), TRUE)
    ELSE [block |-> block, saw_blank |-> saw_blank, j |-> j]

\* while block and block[-1] == '': block.pop()
RECURSIVE PopTrailingBlank(_)
PopTrailingBlank(block) ==
    IF block # <<>> /\ block[Len(block)] = ""
    THEN PopTrailingBlank(SubSeq(block, 1, Len(block) - 1))
    ELSE block

\* while block and block[0] == '': block.pop(0)
RECURSIVE PopLeadingBlank(_)
PopLeadingBlank(block) ==
    IF block # <<>> /\ block[1] = "" THEN PopLeadingBlank(Tail(block)) ELSE block

\* The re-emission loop over block.
ReEmit(block) ==
    [k \in 1..Len(block) |-> IF block[k] = "" THEN "" ELSE Indent \o block[k]]

\* The lines emitted for a collected block.  The pops act on block itself, so
\* a block that is fenced only if something is left of it is re-emitted as
\* what the pops left.
EmitBlock(block, saw_blank) ==
    IF block # <<>> /\ saw_blank
    THEN LET popped == PopLeadingBlank(PopTrailingBlank(block))
         IN IF popped # <<>>
            THEN <<Fence>> \o popped \o <<Fence>>
            ELSE ReEmit(popped)
    ELSE ReEmit(block)

RECURSIVE ConvertLoop(_, _, _)
ConvertLoop(lines, i, result) ==
    IF i > Len(lines) THEN result
    ELSE IF startswith(lines[i], Indent)
    THEN IF i > 1 /\ strip(lines[i - 1]) # ""
         THEN ConvertLoop(lines, i + 1, Append(result, lines[i]))
         ELSE LET c == CollectBlock(lines, i, <<>>, FALSE)
              IN ConvertLoop(lines, c.j, result \o EmitBlock(c.block, c.saw_blank))
    ELSE ConvertLoop(lines, i + 1, Append(result, lines[i]))

convert_indented_code_blocks(lines) == ConvertLoop(lines, 1, <<>>)

(***************************************************************************)
(* collapse_blank_lines                                                    *)
(***************************************************************************)
\* A mutant: three blank lines of a run are kept.
KeepsThreeBlanks(blank_streak) == blank_streak <= 3

\* if blank_streak <= 2
KeepsBlank(blank_streak) == blank_streak <= 2

RECURSIVE CollapseLoop(_, _, _, _)
CollapseLoop(lines, i, compressed, blank_streak) ==
    IF i > Len(lines) THEN compressed
    ELSE IF strip(lines[i]) # ""
    THEN CollapseLoop(lines, i + 1, Append(compressed, rstrip(lines[i])), 0)
    ELSE CollapseLoop(lines, i + 1,
                      IF KeepsBlank(blank_streak + 1)
                      THEN Append(compressed, "") ELSE compressed,
                      blank_streak + 1)

collapse_blank_lines(lines) == CollapseLoop(lines, 1, <<>>, 0)

(***************************************************************************)
(* convert_file: the text read from the converter and the text written.    *)
(***************************************************************************)
\* str.splitlines() of a text whose only line terminator is "\n".
RECURSIVE SplitLinesFrom(_, _, _)
SplitLinesFrom(s, i, current) ==
    IF i > Len(s) THEN IF current # "" THEN <<current>> ELSE <<>>
    ELSE IF Char(s, i) = "\n"
         THEN <<current>> \o SplitLinesFrom(s, i + 1, "")
         ELSE SplitLinesFrom(s, i + 1, current \o Char(s, i))

splitlines(s) == SplitLinesFrom(s, 1, "")

\* '\n'.join(line.rstrip() for line in lines)
RECURSIVE JoinStripped(_, _)
JoinStripped(lines, i) ==
    IF i > Len(lines) THEN ""
    ELSE IF i = Len(lines) THEN rstrip(lines[i])
    ELSE rstrip(lines[i]) \o "\n" \o JoinStripped(lines, i + 1)

\* The four replacements of escaped characters by entities.
ReplaceEscapes(s) ==
    replace(replace(replace(replace(s, "\\<", "&lt;"), "\\>", "&gt;"),
                    "\\[", "&#91;"), "\\]", "&#93;")

\* md_content, from the join to the appended newline.
AssembleContent(lines) ==
    LET md_content == ReplaceEscapes(replace(strip(JoinStripped(lines, 1)), NBSP, " "))
    IN IF md_content # "" THEN md_content \o "\n" ELSE md_content

\* What convert_file writes for the text the converter printed.
ConvertedContent(stdout) ==
    AssembleContent(collapse_blank_lines(convert_indented_code_blocks(
        rewrite_summary_tables(splitlines(stdout)))))

(***************************************************************************)
(* main and convert_file: the batch over the file system.                  *)
(***************************************************************************)
NoFile == "<absent>"
NoTarget == "<none>"

html_root == "docs/manuals/ium_componentref/html"
md_root == "docs/manuals/ium_componentref/markdown"
docbook_html == "docs/manuals/commandref/html/docbook.html"
docbook_md == "docs/manuals/commandref/markdown/commandref.md"

\* The HTML files that dir_path.rglob('*.html') can find in this model.
HtmlCandidates ==
    { html_root \o "/components/a.html",
      html_root \o "/components/b.html",
      html_root \o "/attributes/deep/c.html" }

\* html_file.relative_to(html_root)
relative_to(path, root) == SubSeq(path, Len(root) + 2, Len(path))

\* rel.with_suffix(suffix), for a name that has a suffix
with_suffix(path, suffix) ==
    LET dot == CHOOSE i \in 1..Len(path) :
                   /\ Char(path, i) = "."
                   /\ \A k \in (i + 1)..Len(path) : Char(path, k) # "."
    IN SubSeq(path, 1, dot - 1) \o suffix

\* The md_path main passes to convert_file for an input file.
MdPath(html_file) ==
    IF html_file = docbook_html THEN docbook_md
    ELSE md_root \o "/" \o with_suffix(relative_to(html_file, html_root), ".md")

AllHtml == HtmlCandidates \cup {docbook_html}
AllMd == {MdPath(h) : h \in AllHtml}

\* md_path.parent and its ancestors: what mkdir(parents=True) makes exist.
ParentDirs(path) ==
    {SubSeq(path, 1, i - 1) : i \in {k \in 1..Len(path) : Char(path, k) = "/"}}

\* What the converter may print for an input file.
PandocOutputs ==
    { "",
      "| **K:** | v |\n| a | b |\n",
      "p\n\n    x\n\n    y\n\n\n\n\\<b\\>\n" }

\* A mutant: the parent directory is made before the converter is run.
DirsIfMkdirCameFirst(md_path) == fsDirs \cup ParentDirs(md_path)

\* The directories after a convert_file whose subprocess.run raised: the
\* exception leaves convert_file before mkdir is reached.
DirsAfterConverterFailure(md_path) == fsDirs

\* convert_file(html_file, MdPath(html_file)) with the converter printing stdout.
ConvertFileReturns(html_file, stdout) ==
    /\ before' = [dirs |-> fsDirs, files |-> fsFiles]
    /\ calls' = [calls EXCEPT ![html_file] = @ + 1]
    /\ fsDirs' = fsDirs \cup ParentDirs(MdPath(html_file))
    /\ fsFiles' = [fsFiles EXCEPT ![MdPath(html_file)] = ConvertedContent(stdout)]
    /\ written' = [written EXCEPT ![MdPath(html_file)] = ConvertedContent(stdout)]

\* convert_file(html_file, MdPath(html_file)) with the converter failing:
\* check=True raises CalledProcessError, which neither convert_file nor main
\* catches.
ConvertFileRaises(html_file) ==
    /\ before' = [dirs |-> fsDirs, files |-> fsFiles]
    /\ calls' = [calls EXCEPT ![html_file] = @ + 1]
    /\ fsDirs' = DirsAfterConverterFailure(MdPath(html_file))
    /\ raised' = html_file
    /\ pc' = "raised"
    /\ UNCHANGED <<fsFiles, written>>

IdleMain ==
    /\ htmlFiles = {}
    /\ docbook = FALSE
    /\ targets = <<>>
    /\ idx = 0
    /\ fsDirs = {}
    /\ fsFiles = <<>>
    /\ before = <<>>
    /\ written = <<>>
    /\ calls = <<>>
    /\ raised = NoTarget

IdlePipeline ==
    /\ row = ""
    /\ cells = <<>>
    /\ doc = <<>>
    /\ out = <<>>
    /\ text = ""
    /\ text2 = ""

(***************************************************************************)
(* SplitSpec: split_table_row applied to every row of up to MaxRowLen      *)
(* characters over RowChars.                                               *)
(***************************************************************************)
RowChars == {"|", "\\", "a", " "}

SplitInit ==
    /\ pc = "input"
    /\ IdlePipeline
    /\ IdleMain

TypeRowChar ==
    /\ pc = "input"
    /\ Len(row) < MaxRowLen
    /\ \E c \in RowChars : row' = row \o c
    /\ UNCHANGED <<pc, cells, doc, out, text, text2, mainVars>>

CallSplit ==
    /\ pc = "input"
    /\ cells' = split_table_row(row)
    /\ pc' = "split"
    /\ UNCHANGED <<row, doc, out, text, text2, mainVars>>

SplitNext == TypeRowChar \/ CallSplit

SplitSpec == SplitInit /\ [][SplitNext]_vars

(***************************************************************************)
(* TableSpec: rewrite_summary_tables and format_summary_table applied to   *)
(* every document of up to MaxTableDocLen lines drawn from TableLines.     *)
(***************************************************************************)
TableLines ==
    { "| **Name:** John | **Age:** 30 |",
      "| **K:** | v |",
      "| --- | --- |",
      "|---|",
      "| a | b |",
      "| x | **N:** v |",
      "|**:** v|",
      "**N:** v",
      "text",
      "" }

TableInit ==
    /\ pc = "input"
    /\ IdlePipeline
    /\ IdleMain

AddTableLine ==
    /\ pc = "input"
    /\ Len(doc) < MaxTableDocLen
    /\ \E line \in TableLines : doc' = Append(doc, line)
    /\ UNCHANGED <<pc, row, cells, out, text, text2, mainVars>>

CallRewrite ==
    /\ pc = "input"
    /\ out' = rewrite_summary_tables(doc)
    /\ pc' = "rewritten"
    /\ UNCHANGED <<row, cells, doc, text, text2, mainVars>>

CallFormat ==
    /\ pc = "input"
    /\ out' = format_summary_table(doc)
    /\ pc' = "formatted"
    /\ UNCHANGED <<row, cells, doc, text, text2, mainVars>>

TableNext == AddTableLine \/ CallRewrite \/ CallFormat

TableSpec == TableInit /\ [][TableNext]_vars

(***************************************************************************)
(* IndentSpec: convert_indented_code_blocks applied to every document of   *)
(* up to MaxIndentDocLen lines drawn from IndentLines.                     *)
(***************************************************************************)
IndentLines == {"", " ", "p", "    a", "    "}

IndentInit ==
    /\ pc = "input"
    /\ IdlePipeline
    /\ IdleMain

AddIndentLine ==
    /\ pc = "input"
    /\ Len(doc) < MaxIndentDocLen
    /\ \E line \in IndentLines : doc' = Append(doc, line)
    /\ UNCHANGED <<pc, row, cells, out, text, text2, mainVars>>

CallConvertIndented ==
    /\ pc = "input"
    /\ out' = convert_indented_code_blocks(doc)
    /\ pc' = "converted"
    /\ UNCHANGED <<row, cells, doc, text, text2, mainVars>>

IndentNext == AddIndentLine \/ CallConvertIndented

IndentSpec == IndentInit /\ [][IndentNext]_vars

(***************************************************************************)
(* CollapseSpec: collapse_blank_lines and the final assembly applied to    *)
(* every document of up to MaxCollapseDocLen lines drawn from              *)
(* CollapseLines, and then to their own output.                            *)
(***************************************************************************)
CollapseLines == {"", " ", "a", " a~", "a~b \\<", "\\\\>\\[\\]"}

CollapseInit ==
    /\ pc = "input"
    /\ IdlePipeline
    /\ IdleMain

AddCollapseLine ==
    /\ pc = "input"
    /\ Len(doc) < MaxCollapseDocLen
    /\ \E line \in CollapseLines : doc' = Append(doc, line)
    /\ UNCHANGED <<pc, row, cells, out, text, text2, mainVars>>

CollapseAndAssemble ==
    /\ pc = "input"
    /\ out' = collapse_blank_lines(doc)
    /\ text' = AssembleContent(collapse_blank_lines(doc))
    /\ pc' = "assembled"
    /\ UNCHANGED <<row, cells, doc, text2, mainVars>>

CollapseAndAssembleAgain ==
    /\ pc = "assembled"
    /\ text2' = AssembleContent(collapse_blank_lines(splitlines(text)))
    /\ pc' = "reassembled"
    /\ UNCHANGED <<row, cells, doc, out, text, mainVars>>

CollapseNext == AddCollapseLine \/ CollapseAndAssemble \/ CollapseAndAssembleAgain

CollapseSpec == CollapseInit /\ [][CollapseNext]_vars

(***************************************************************************)
(* MainSpec: main over every set of existing input files, on a fresh       *)
(* output tree or on the tree an earlier run left, the converter printing  *)
(* one of PandocOutputs or failing for each file.                          *)
(***************************************************************************)
\* The sequences that list each element of S once.
RECURSIVE Orderings(_)
Orderings(S) ==
    IF S = {} THEN {<<>>}
    ELSE UNION {{<<x>> \o rest : rest \in Orderings(S \ {x})} : x \in S}

MainInit ==
    /\ pc = "main"
    /\ IdlePipeline
    /\ htmlFiles \in SUBSET HtmlCandidates
    /\ docbook \in BOOLEAN
    /\ targets = <<>>
    /\ idx = 0
    /\ \/ /\ fsDirs = {}
          /\ fsFiles = [p \in AllMd |-> NoFile]
       \/ /\ fsDirs = UNION {ParentDirs(p) : p \in AllMd}
          /\ fsFiles = [p \in AllMd |-> "old\n"]
    /\ before = [dirs |-> fsDirs, files |-> fsFiles]
    /\ written = [p \in AllMd |-> NoFile]
    /\ calls = [h \in AllHtml |-> 0]
    /\ raised = NoTarget

\* The existing files under html_root/directory.
FilesUnder(directory) ==
    {h \in htmlFiles : startswith(h, html_root \o "/" \o directory \o "/")}

\* The two loops that fill targets: the directories in the order of the
\* list, the files of one directory in rglob's order, which is the file
\* system's.  (No candidate is under packages or releases.)
GatherTargets ==
    /\ pc = "main"
    /\ \E first \in Orderings(FilesUnder("components")) :
       \E second \in Orderings(FilesUnder("attributes")) :
           targets' = first \o second
    /\ pc' = "loop"
    /\ UNCHANGED <<pipelineVars, htmlFiles, docbook, idx, fsDirs, fsFiles,
                   before, written, calls, raised>>

\* One turn of the loop over targets in which convert_file returns.
ConvertTarget ==
    /\ pc = "loop"
    /\ idx < Len(targets)
    /\ \E stdout \in PandocOutputs : ConvertFileReturns(targets[idx + 1], stdout)
    /\ idx' = idx + 1
    /\ UNCHANGED <<pc, pipelineVars, htmlFiles, docbook, targets, raised>>

\* One turn of the loop in which the converter fails.
ConvertTargetFails ==
    /\ pc = "loop"
    /\ idx < Len(targets)
    /\ ConvertFileRaises(targets[idx + 1])
    /\ UNCHANGED <<pipelineVars, htmlFiles, docbook, targets, idx>>

\* The loop is over and docbook.html does not exist.
SkipDocbook ==
    /\ pc = "loop"
    /\ idx = Len(targets)
    /\ ~docbook
    /\ pc' = "returned"
    /\ UNCHANGED <<pipelineVars, mainVars>>

\* The loop is over, docbook.html exists and convert_file returns.
ConvertDocbook ==
    /\ pc = "loop"
    /\ idx = Len(targets)
    /\ docbook
    /\ \E stdout \in PandocOutputs : ConvertFileReturns(docbook_html, stdout)
    /\ pc' = "returned"
    /\ UNCHANGED <<pipelineVars, htmlFiles, docbook, targets, idx, raised>>

\* The loop is over, docbook.html exists and the converter fails.
ConvertDocbookFails ==
    /\ pc = "loop"
    /\ idx = Len(targets)
    /\ docbook
    /\ ConvertFileRaises(docbook_html)
    /\ UNCHANGED <<pipelineVars, htmlFiles, docbook, targets, idx>>

MainNext ==
    \/ GatherTargets
    \/ ConvertTarget
    \/ ConvertTargetFails
    \/ SkipDocbook
    \/ ConvertDocbook
    \/ ConvertDocbookFails

MainSpec == MainInit /\ [][MainNext]_vars

(***************************************************************************)
(* The cells a row has by its split points, as the specification words it: *)
(* the trimmed text between two consecutive split points, and the text     *)
(* after the last one when it holds at least one character.                *)
(***************************************************************************)
\* The elements of a set of positions, ascending.
RECURSIVE Ascending(_)
Ascending(S) ==
    IF S = {} THEN <<>>
    ELSE LET m == CHOOSE x \in S : \A y \in S : x <= y
         IN <<m>> \o Ascending(S \ {m})

\* The character at i follows a backslash that is not itself escaped.
RECURSIVE FollowsEscape(_, _)
FollowsEscape(s, i) ==
    /\ i > 1
    /\ Char(s, i - 1) = "\\"
    /\ ~FollowsEscape(s, i - 1)

Pipes(s) == {i \in 1..Len(s) : Char(s, i) = "|"}

UnescapedPipes(s) == {i \in Pipes(s) : ~FollowsEscape(s, i)}

CellsBetween(s, points) ==
    LET p == Ascending(points)
        n == Len(p)
        inner == [k \in 1..(n - 1) |-> strip(SubSeq(s, p[k] + 1, p[k + 1] - 1))]
        last == IF n = 0 THEN "" ELSE SubSeq(s, p[n] + 1, Len(s))
    IN IF n = 0 THEN <<>>
       ELSE IF last # "" THEN Append(inner, strip(last)) ELSE inner

\* C4: for every row, split_table_row splits exactly at the '|' characters
\* that do not follow an unescaped backslash, starting from the first such
\* '|': what precedes it (an escaped '|' included) is ignored, an escaped '|'
\* stays in its cell with its backslash, and each cell is the trimmed text
\* between two consecutive split points.
C4_SplitsAtUnescapedPipes ==
    pc = "split" => cells = CellsBetween(row, UnescapedPipes(row))

\* C5: for every row without a backslash, split_table_row returns, in order,
\* the trimmed '|'-delimited segments of the text after the first '|'; two
\* adjacent '|' give an empty cell, and the segment after the last '|' is a
\* cell only when it holds at least one character.
C5_SegmentsWithoutBackslash ==
    (pc = "split" /\ ~Contains(row, "\\")) => cells = CellsBetween(row, Pipes(row))

\* C5's case: text before the first '|' is discarded, an empty cell comes
\* from two adjacent '|', and a last segment of one blank is kept as "".
C5_Witness ==
    /\ pc = "split"
    /\ row = "a|| "
    /\ cells = <<"", "">>

(***************************************************************************)
(* Claims about the summary tables.                                        *)
(***************************************************************************)
Header == <<"| Field | Details |", "| --- | --- |">>

C3Rows == <<"| **Name:** John | **Age:** 30 |", "| --- | --- |">>

HasSummaryShape(c) ==
    /\ Len(c) >= 6
    /\ SubSeq(c, 1, 2) = "**"
    /\ \E n \in 1..(Len(c) - 5) : SubSeq(c, 3 + n, 5 + n) = ":**"

FirstCellHasSummaryShape(line) ==
    /\ split_table_row(line) # <<>>
    /\ HasSummaryShape(split_table_row(line)[1])

IsTableLine(line) == startswith(line, "|")

\* The maximal run of table lines that starts at line i of lines.
RunFrom(lines, i) ==
    LET e == CHOOSE e \in i..Len(lines) :
                 /\ \A k \in i..e : IsTableLine(lines[k])
                 /\ (e = Len(lines) \/ ~IsTableLine(lines[e + 1]))
    IN SubSeq(lines, i, e)

\* What line i of lines contributes to the rewritten document.
PieceAt(lines, i) ==
    IF ~IsTableLine(lines[i]) THEN <<lines[i]>>
    ELSE IF i > 1 /\ IsTableLine(lines[i - 1]) THEN <<>>
    ELSE IF \E k \in 1..Len(RunFrom(lines, i)) :
                FirstCellHasSummaryShape(RunFrom(lines, i)[k])
         THEN format_summary_table(RunFrom(lines, i))
         ELSE RunFrom(lines, i)

RECURSIVE PiecesFrom(_, _)
PiecesFrom(lines, i) ==
    IF i > Len(lines) THEN <<>> ELSE PieceAt(lines, i) \o PiecesFrom(lines, i + 1)

\* C6: the output of rewrite_summary_tables is, left to right, for each
\* maximal run of lines starting with '|' its format_summary_table when one
\* of its rows has a first cell of the summary shape and the run itself
\* otherwise, and every other line unchanged, in the order of the input.
C6_RewritesOnlySummaryTables ==
    pc = "rewritten" => out = PiecesFrom(doc, 1)

\* C6's case: a summary table, a plain line, and a table whose only bold
\* label is in its second cell.
C6_Witness ==
    /\ pc = "rewritten"
    /\ doc = <<"| **K:** | v |", "text", "| x | **N:** v |">>
    /\ out = Header \o <<"| K | v |", "text", "| x | **N:** v |">>

\* A separator row: nothing but '|', '-' and blanks.
IsSeparatorRow(line) ==
    \A i \in 1..Len(line) : Char(line, i) \in {"|", "-", " "}

\* A qualifying row: not blank, not a separator, its first cell of the
\* summary shape.
Qualifies(line) ==
    /\ strip(line) # ""
    /\ ~IsSeparatorRow(line)
    /\ FirstCellHasSummaryShape(line)

endswith(s, suffix) ==
    /\ Len(s) >= Len(suffix)
    /\ SubSeq(s, Len(s) - Len(suffix) + 1, Len(s)) = suffix

IsCodeLine(line) == startswith(line, Indent) /\ strip(line) # ""

NoIndentOutside(lines, a, b) ==
    \A k \in (1..Len(lines)) \ (a..b) : ~startswith(lines[k], Indent)

\* Lines a..b are one contiguous run of code lines, eligible for collection
\* (at the start of the document or after a blank line), and no other line
\* of the document is indented.
SimpleRun(lines, a, b) ==
    /\ 1 <= a /\ a <= b /\ b <= Len(lines)
    /\ \A k \in a..b : IsCodeLine(lines[k])
    /\ (a = 1 \/ strip(lines[a - 1]) = "")
    /\ NoIndentOutside(lines, a, b)

\* C1: an eligible block that is a single contiguous run of indented lines,
\* whatever follows it, is emitted with its indentation and without a fence
\* line, and the lines after it are emitted unchanged.  (Stated for runs of
\* lines with text after the indentation, in documents with no other
\* indented line.)
C1_SimpleRunNeverFenced ==
    pc = "converted" =>
        \A a \in 1..Len(doc) : \A b \in a..Len(doc) :
            SimpleRun(doc, a, b) =>
                LET n == Len(doc) - a + 1
                IN /\ \A k \in 1..Len(out) : out[k] # Fence
                   /\ Len(out) >= n
                   /\ SubSeq(out, Len(out) - n + 1, Len(out)) = SubSeq(doc, a, Len(doc))

\* Lines a..b are a maximal run of code lines and empty lines whose first
\* line is a code line right after a non-blank line, and no other line of
\* the document is indented.
BlockAfterText(lines, a, b) ==
    /\ 2 <= a /\ a <= b /\ b <= Len(lines)
    /\ strip(lines[a - 1]) # ""
    /\ IsCodeLine(lines[a])
    /\ \A k \in a..b : IsCodeLine(lines[k]) \/ lines[k] = ""
    /\ (b = Len(lines) \/ ~(startswith(lines[b + 1], Indent) \/ lines[b + 1] = ""))
    /\ NoIndentOutside(lines, a, b)

\* C2: when the first line of an indented block (a maximal run of indented
\* or blank lines) immediately follows a non-blank line, every line of the
\* block is in the output unchanged and no fence line is put inside it.
\* (The lines before the block are not indented, so the block's lines keep
\* their positions.)
C2_BlockAfterTextUnchanged ==
    pc = "converted" =>
        \A a \in 1..Len(doc) : \A b \in a..Len(doc) :
            BlockAfterText(doc, a, b) =>
                /\ Len(out) >= b
                /\ SubSeq(out, a, b) = SubSeq(doc, a, b)

\* Lines a..b are the range the scanner collects from an eligible line a:
\* a is indented, at the start of the document or after a blank line, no
\* line before it is indented, and b is the last line of the run of indented
\* or empty lines that starts at a.
CollectedRange(lines, a, b) ==
    /\ 1 <= a /\ a <= b /\ b <= Len(lines)
    /\ startswith(lines[a], Indent)
    /\ (a = 1 \/ strip(lines[a - 1]) = "")
    /\ \A k \in 1..(a - 1) : ~startswith(lines[k], Indent)
    /\ \A k \in a..b : startswith(lines[k], Indent) \/ lines[k] = ""
    /\ (b = Len(lines) \/ ~(startswith(lines[b + 1], Indent) \/ lines[b + 1] = ""))

\* C10: a collected block that is not fenced is re-emitted verbatim: the
\* lines emitted for the collected range equal the input lines of the range,
\* a line of only the four spaces included.
C10_UnfencedBlockVerbatim ==
    pc = "converted" =>
        \A a \in 1..Len(doc) : \A b \in a..Len(doc) :
            (CollectedRange(doc, a, b) /\ (Len(out) < a \/ out[a] # Fence)) =>
                /\ Len(out) >= b
                /\ SubSeq(out, a, b) = SubSeq(doc, a, b)

(***************************************************************************)
(* Claims about the blank lines and the entities.                          *)
(***************************************************************************)
NoLongBlankRun(lines) ==
    \A k \in 1..(Len(lines) - 2) :
        ~(strip(lines[k]) = "" /\ strip(lines[k + 1]) = "" /\ strip(lines[k + 2]) = "")

NoTrailingSpace(lines) ==
    \A k \in 1..Len(lines) : lines[k] = "" \/ ~IsSpace(Char(lines[k], Len(lines[k])))

NoEscapeLeft(s) ==
    \A e \in {"\\<", "\\>", "\\[", "\\]"} : ~Contains(s, e)

\* C8: collapse_blank_lines followed by the final assembly, applied to text
\* that is already their output, gives the same text; and that output has no
\* run of more than two blank lines, no line with trailing white space and
\* none of the four escaped sequences.
C8_CollapseAssembleIdempotent ==
    /\ pc = "reassembled" => text2 = text
    /\ pc \in {"assembled", "reassembled"} =>
           /\ NoLongBlankRun(splitlines(text))
           /\ NoTrailingSpace(splitlines(text))
           /\ NoEscapeLeft(text)

\* C8's case: a run of three blank lines, a trailing non-breaking space, an
\* inner one, and an escaped character.
C8_Witness ==
    /\ pc = "reassembled"
    /\ doc = <<" a~", "", "", "", "a~b \\<">>
    /\ text = "a\n\n\na b &lt;\n"
    /\ text2 = text

(***************************************************************************)
(* Claims about the batch.                                                 *)
(***************************************************************************)
\* C9: when the converter fails for a file, it was run once for that file,
\* the failed input's destination file and its parent directories are as
\* they were when convert_file was entered, and every output file written
\* for an earlier input still holds what was written to it.
C9_FailureLeavesOutputsIntact ==
    pc = "raised" =>
        /\ calls[raised] = 1
        /\ fsFiles[MdPath(raised)] = before.files[MdPath(raised)]
        /\ \A d \in ParentDirs(MdPath(raised)) : d \in fsDirs <=> d \in before.dirs
        /\ written[MdPath(raised)] = NoFile
        /\ \A p \in AllMd : written[p] # NoFile => fsFiles[p] = written[p]

\* C9's case: on a fresh tree, the second input of a directory converted
\* and written, then the converter failing for an input of another directory.
C9_Witness ==
    /\ pc = "raised"
    /\ idx = 1
    /\ raised = html_root \o "/attributes/deep/c.html"
    /\ md_root \o "/attributes" \notin fsDirs
    /\ fsFiles[md_root \o "/components/b.md"] = "| Field | Details |\n| --- | --- |\n| K | v |\n"
    /\ fsFiles[md_root \o "/attributes/deep/c.md"] = NoFile

=============================================================================
